---- MODULE Spec2Model ----
(***************************************************************************)
(* A model of JANE, a 6502 (NES) emulator core: the register file, the    *)
(* CPU bus with its RAM mirroring, the NROM cartridge mapper, the stack,   *)
(* the addressing modes and the instruction handlers of src/src/cpu.rs.    *)
(*                                                                         *)
(* A CPU value ("self" below, as in the source) is the record              *)
(*     [registers |-> [a, x, y, s, pc, status], ram |-> ..., fatal |-> ..] *)
(* where fatal names the panic that ended the call ("none" while running). *)
(* A method that returns a value returns [self |-> CPU, v |-> value].      *)
(* Once fatal is set every later step of the same call leaves the CPU      *)
(* unchanged, which is how a Rust panic unwinds through the callers.       *)
(***************************************************************************)
EXTENDS Integers, Sequences, FiniteSets, TLC

VARIABLES
    registers,        \* CPU.registers: [a, x, y, s, pc, status]
    ram,              \* CPU.ram: the cells of the 0x800-byte array that are not 0
    cartridge,        \* CPU.cartridge: the NRomPRG mapper [prg_rom_size, is_mirroring_prg, prg]
    fatal,            \* "none", or the panic that ended the last call
    overflow_checks,  \* the build: TRUE panics on integer overflow (debug), FALSE wraps (release)
    last,             \* the last call made: [name, arg, ret, pre]
    prev,             \* the call made before it
    steps             \* number of calls made so far

vars == <<registers, ram, cartridge, fatal, overflow_checks, last, prev, steps>>

----------------------------------------------------------------------------
(* Bit operations on naturals, as the u8 / u16 operators compute them.     *)

RECURSIVE BitAnd(_, _)
BitAnd(p, q) ==
    IF p = 0 \/ q = 0 THEN 0
    ELSE (p % 2) * (q % 2) + 2 * BitAnd(p \div 2, q \div 2)

RECURSIVE BitOr(_, _)
BitOr(p, q) ==
    IF p = 0 THEN q
    ELSE IF q = 0 THEN p
    ELSE (IF p % 2 = 1 \/ q % 2 = 1 THEN 1 ELSE 0) + 2 * BitOr(p \div 2, q \div 2)

RECURSIVE BitXor(_, _)
BitXor(p, q) ==
    IF p = 0 THEN q
    ELSE IF q = 0 THEN p
    ELSE ((p + q) % 2) + 2 * BitXor(p \div 2, q \div 2)

\* !(flag as u8) on a u8
BitNot8(p) == 255 - p

\* `value as u8`
AsU8(p) == p % 256

\* `value << n` on a u16 / u8: the bits shifted out are dropped
Shl16(p, n) == (p * (2 ^ n)) % 65536
Shl8(p, n) == (p * (2 ^ n)) % 256

----------------------------------------------------------------------------
(* Results and panics.                                                     *)

Ret(self, v) == [self |-> self, v |-> v]

Panic(self, kind) ==
    IF self.fatal # "none" THEN self ELSE [self EXCEPT !.fatal = kind]

SetReg(self, reg, v) ==
    IF self.fatal # "none" THEN self ELSE [self EXCEPT !.registers[reg] = v]

(* Integer arithmetic of the build: an overflowing + or - panics when the  *)
(* build checks overflow and wraps when it does not.                       *)
AddW(self, p, q, width) ==
    IF self.fatal # "none" THEN Ret(self, 0)
    ELSE IF p + q >= width
         THEN IF overflow_checks THEN Ret(Panic(self, "overflow"), 0)
              ELSE Ret(self, (p + q) % width)
         ELSE Ret(self, p + q)

SubW(self, p, q, width) ==
    IF self.fatal # "none" THEN Ret(self, 0)
    ELSE IF p < q
         THEN IF overflow_checks THEN Ret(Panic(self, "overflow"), 0)
              ELSE Ret(self, (p - q + width) % width)
         ELSE Ret(self, p - q)

Add8(self, p, q) == AddW(self, p, q, 256)
Sub8(self, p, q) == SubW(self, p, q, 256)
Add16(self, p, q) == AddW(self, p, q, 65536)
Sub16(self, p, q) == SubW(self, p, q, 65536)

----------------------------------------------------------------------------
(* Memory backends.                                                        *)

PRG_UNIT_SIZE == 16384

\* ReadWriteMemory::new(0x800)
CPU_RAM_SIZE == 2048

\* The byte a PRG image holds at an offset: its patched bytes over a fill
\* pattern that differs from page to page and from bank to bank.
ImageByte(image, offset) ==
    IF offset \in DOMAIN image.patch THEN image.patch[offset]
    ELSE (offset + 3 * (offset \div 256) + image.seed) % 256

\* ReadWriteMemory::load: data[address]
ReadWriteMemory_load(self, address) ==
    IF self.fatal # "none" THEN Ret(self, 0)
    ELSE IF address >= CPU_RAM_SIZE THEN Ret(Panic(self, "out_of_bounds"), 0)
    ELSE Ret(self, IF address \in DOMAIN self.ram THEN self.ram[address] ELSE 0)

\* ReadWriteMemory::store: data[address] = value
ReadWriteMemory_store(self, address, value) ==
    IF self.fatal # "none" THEN self
    ELSE IF address >= CPU_RAM_SIZE THEN Panic(self, "out_of_bounds")
    ELSE [self EXCEPT !.ram =
            [c \in ((DOMAIN self.ram \cup {address}) \ (IF value = 0 THEN {address} ELSE {}))
                |-> IF c = address THEN value ELSE self.ram[c]]]

\* ReadOnlyMemory::load: data[address]
ReadOnlyMemory_load(self, address) ==
    IF self.fatal # "none" THEN Ret(self, 0)
    ELSE IF address >= cartridge.prg.len THEN Ret(Panic(self, "out_of_bounds"), 0)
    ELSE Ret(self, ImageByte(cartridge.prg, address))

\* ReadOnlyMemory::store: always an invalid write
ReadOnlyMemory_store(self, address, value) == Panic(self, "invalid_write")

\* NRomPRG::new
NRomPRG_new(prg_rom_size, prg) ==
    [prg_rom_size |-> prg_rom_size,
     is_mirroring_prg |-> (prg_rom_size = 1),
     prg |-> prg]

\* NRomPRG::load without the single-bank mirror
NRomPRG_load_unmirrored(self, address) ==
    IF address >= \H8000 /\ address <= \HFFFF
    THEN ReadOnlyMemory_load(self, address - \H8000)
    ELSE Ret(Panic(self, "invalid_prg_access"), 0)

\* NRomPRG::load reading 0 below $8000
NRomPRG_load_open_bus(self, address) ==
    IF address >= \H8000 /\ address <= \HFFFF
    THEN IF cartridge.is_mirroring_prg /\ address > \HBFFF
         THEN ReadOnlyMemory_load(self, address - \HC000)
         ELSE ReadOnlyMemory_load(self, address - \H8000)
    ELSE Ret(self, 0)

\* <NRomPRG as Memory>::load
NRomPRG_load(self, address) ==
    IF address >= \H8000 /\ address <= \HFFFF
    THEN IF cartridge.is_mirroring_prg /\ address > \HBFFF
         THEN ReadOnlyMemory_load(self, address - \HC000)
         ELSE ReadOnlyMemory_load(self, address - \H8000)
    ELSE Ret(Panic(self, "invalid_prg_access"), 0)

\* <NRomPRG as Memory>::store
NRomPRG_store(self, address, value) == ReadOnlyMemory_store(self, address, value)

\* Memory::loadw on the mapper: little-endian word, low byte at address
NRomPRG_loadw(self, address) ==
    LET lo == NRomPRG_load(self, address)
        nx == Add16(lo.self, address, 1)
        hi == NRomPRG_load(nx.self, nx.v)
    IN Ret(hi.self, BitOr(lo.v, Shl16(hi.v, 8)))

----------------------------------------------------------------------------
(* The CPU bus: <CPU as Memory>::load / store.                             *)

\* CPU::load folding the mirrors with a 4 KB mask
load_wide_mask(self, address) ==
    IF address <= \H1FFF THEN ReadWriteMemory_load(self, BitAnd(address, \HFFF))
    ELSE IF address <= \H401F THEN Ret(Panic(self, "unimplemented"), 0)
    ELSE NRomPRG_load(self, address)

load(self, address) ==
    IF address <= \H1FFF THEN ReadWriteMemory_load(self, BitAnd(address, \H7FF))
    ELSE IF address <= \H2007 THEN Ret(Panic(self, "unimplemented"), 0)
    ELSE IF address <= \H3FFF THEN Ret(Panic(self, "unimplemented"), 0)
    ELSE IF address <= \H401F THEN Ret(Panic(self, "unimplemented"), 0)
    ELSE IF address <= \HFFFF THEN NRomPRG_load(self, address)
    ELSE Ret(Panic(self, "unreachable"), 0)

\* CPU::store dropping writes to the PPU / APU / IO registers
store_ignoring_registers(self, address, value) ==
    IF address <= \H7FF THEN ReadWriteMemory_store(self, BitAnd(address, \H7FF), value)
    ELSE IF address >= \H2000 /\ address <= \H401F THEN self
    ELSE IF address >= \H4020 /\ address <= \HFFFF THEN NRomPRG_store(self, address, value)
    ELSE Panic(self, "unreachable")

\* CPU::store dropping writes to cartridge space
store_ignoring_cartridge(self, address, value) ==
    IF address <= \H7FF THEN ReadWriteMemory_store(self, BitAnd(address, \H7FF), value)
    ELSE IF address >= \H2000 /\ address <= \H401F THEN Panic(self, "unimplemented")
    ELSE IF address >= \H4020 /\ address <= \HFFFF THEN self
    ELSE Panic(self, "unreachable")

store(self, address, value) ==
    IF address <= \H7FF THEN ReadWriteMemory_store(self, BitAnd(address, \H7FF), value)
    ELSE IF address >= \H2000 /\ address <= \H2007 THEN Panic(self, "unimplemented")
    ELSE IF address >= \H2008 /\ address <= \H3FFF THEN Panic(self, "unimplemented")
    ELSE IF address >= \H4000 /\ address <= \H401F THEN Panic(self, "unimplemented")
    ELSE IF address >= \H4020 /\ address <= \HFFFF THEN NRomPRG_store(self, address, value)
    ELSE Panic(self, "unreachable")

\* Memory::loadw on the CPU bus
loadw(self, address) ==
    LET lo == load(self, address)
        nx == Add16(lo.self, address, 1)
        hi == load(nx.self, nx.v)
    IN Ret(hi.self, BitOr(lo.v, Shl16(hi.v, 8)))

----------------------------------------------------------------------------
(* Stack operations.                                                       *)

push(self, value) ==
    LET address == BitOr(self.registers.s, \H100)
        st == store(self, address, value)
        dec == Sub8(st, st.registers.s, 1)
    IN SetReg(dec.self, "s", dec.v)

pushw(self, value) ==
    push(push(self, AsU8(value \div 256)), AsU8(value))

pull(self) ==
    LET address == BitOr(self.registers.s, \H100)
        inc == Add8(self, self.registers.s, 1)
        bumped == SetReg(inc.self, "s", inc.v)
    IN load(bumped, address)

pullw(self) ==
    LET word == pull(self)
        high == pull(word.self)
    IN Ret(high.self, BitOr(word.v, high.v))

----------------------------------------------------------------------------
(* Status register and program counter operations.                         *)

NMI_VECTOR == \HFFFA
RESET_VECTOR == \HFFFC
IRQ_VECTOR == \HFFFE

\* enum Flag
Carry == 1
Zero == 2
Irq == 4
Decimal == 8
Break == 16
Overflow == 64
Negative == 128

set_status(self, flag, value) ==
    IF value
    THEN SetReg(self, "status", BitOr(self.registers.status, flag))
    ELSE SetReg(self, "status", BitAnd(self.registers.status, BitNot8(flag)))

get_status(self, flag) == BitAnd(self.registers.status, flag) # 0

load_pc(self) ==
    LET value == NRomPRG_load(self, self.registers.pc)
        next == Add16(value.self, value.self.registers.pc, 1)
    IN Ret(SetReg(next.self, "pc", next.v), value.v)

get_pc(self) ==
    LET address == self.registers.pc
        next == Add16(self, self.registers.pc, 1)
    IN Ret(SetReg(next.self, "pc", next.v), address)

loadw_pc(self) ==
    LET lo == load_pc(self)
        hi == load_pc(lo.self)
    IN Ret(hi.self, BitOr(lo.v, Shl16(hi.v, 8)))

getw_pc(self) ==
    LET lo == get_pc(self)
        hi == get_pc(lo.self)
    IN Ret(hi.self, BitOr(lo.v, Shl16(hi.v, 8)))

----------------------------------------------------------------------------
(* Addressing modes.                                                       *)

immediate_mode(self) == get_pc(self)

absolute_mode(self) == getw_pc(self)

absolute_x_mode(self) ==
    LET w == getw_pc(self) IN Add16(w.self, w.v, w.self.registers.x)

absolute_y_mode(self) ==
    LET w == getw_pc(self) IN Add16(w.self, w.v, w.self.registers.y)

zero_page_mode(self) == load_pc(self)

zero_page_x_mode(self) ==
    LET b == load_pc(self) IN Add8(b.self, b.v, b.self.registers.x)

zero_page_y_mode(self) ==
    LET b == load_pc(self) IN Add8(b.self, b.v, b.self.registers.y)

indirect_x_mode(self) ==
    LET b == load_pc(self)
        address == Add8(b.self, b.v, b.self.registers.x)
    IN loadw(address.self, address.v)

indirect_y_mode(self) ==
    LET address == load_pc(self)
        w == loadw(address.self, address.v)
    IN Add16(w.self, w.v, w.self.registers.y)

relative_mode(self) ==
    LET address == load_pc(self)
    IN IF BitAnd(address.v, \H80) = \H80
       THEN Sub16(address.self, address.self.registers.pc, BitAnd(address.v, \H7F))
       ELSE Add16(address.self, address.self.registers.pc, address.v)

\* CPU::set_zn writing the whole status byte
set_zn_whole_status(self, value) ==
    SetReg(self, "status",
           BitOr(IF value = 0 THEN Zero ELSE 0, IF BitAnd(value, \H80) # 0 THEN Negative ELSE 0))

set_zn(self, value) ==
    set_status(set_status(self, Zero, value = 0), Negative, BitAnd(value, \H80) # 0)

----------------------------------------------------------------------------
(* Instruction handlers.                                                   *)

\* ADC that drops the incoming carry
adc_without_carry_in(self, address) ==
    LET value == load(self, address)
        a0 == value.self.registers.a
        new_a == a0 + value.v
        c == set_status(value.self, Carry, new_a > \HFF)
        v == IF BitAnd(BitXor(a0, value.v), \H80) = 0
                  /\ BitAnd(BitXor(a0, AsU8(new_a)), \H80) = \H80
             THEN set_status(c, Overflow, TRUE)
             ELSE c
    IN SetReg(set_zn(v, AsU8(new_a)), "a", AsU8(new_a))

adc(self, address) ==
    LET value == load(self, address)
        a0 == value.self.registers.a
        new_a == a0 + value.v + (IF get_status(value.self, Carry) THEN 1 ELSE 0)
        c == set_status(value.self, Carry, new_a > \HFF)
        v == IF BitAnd(BitXor(a0, value.v), \H80) = 0
                  /\ BitAnd(BitXor(a0, AsU8(new_a)), \H80) = \H80
             THEN set_status(c, Overflow, TRUE)
             ELSE c
    IN SetReg(set_zn(v, AsU8(new_a)), "a", AsU8(new_a))

and(self, address) ==
    LET value == load(self, address)
        new_a == BitAnd(value.self.registers.a, value.v)
    IN SetReg(set_zn(value.self, new_a), "a", new_a)

asl(self, address) ==
    LET value == load(self, address)
        c == set_status(value.self, Carry, BitAnd(value.v, \H80) = \H80)
        shifted == Shl8(value.v, 1)
    IN store(set_zn(c, shifted), address, shifted)

asla(self) ==
    LET c == set_status(self, Carry, BitAnd(self.registers.a, \H80) = \H80)
        new_a == Shl8(c.registers.a, 1)
    IN SetReg(set_zn(c, new_a), "a", new_a)

\* The body shared by the eight branch handlers: `if taken { pc = relative_mode() }`
branch(self, taken) ==
    IF taken
    THEN LET target == relative_mode(self) IN SetReg(target.self, "pc", target.v)
    ELSE self

bcc(self) == branch(self, ~get_status(self, Carry))
bcs(self) == branch(self, get_status(self, Carry))
beq(self) == branch(self, get_status(self, Zero))
bmi(self) == branch(self, get_status(self, Negative))
bne(self) == branch(self, ~get_status(self, Zero))
bpl(self) == branch(self, ~get_status(self, Negative))
bvc(self) == branch(self, ~get_status(self, Overflow))
bvs(self) == branch(self, get_status(self, Overflow))

bit(self, address) ==
    LET value == load(self, address)
        n == set_status(value.self, Negative, BitAnd(value.v, \H80) = \H80)
        v == set_status(n, Overflow, BitAnd(value.v, \H40) = \H40)
    IN set_status(v, Zero, BitAnd(v.registers.a, value.v) = 0)

\* CPU::brk pushing the status byte before it sets Break
brk_break_after_push(self) ==
    LET ret == Add16(self, self.registers.pc, 1)
        pushed == pushw(ret.self, ret.v)
        p == push(pushed, pushed.registers.status)
        b == set_status(p, Break, TRUE)
        i == set_status(b, Irq, TRUE)
        vector == loadw(i, IRQ_VECTOR)
    IN SetReg(vector.self, "pc", vector.v)

brk(self) ==
    LET ret == Add16(self, self.registers.pc, 1)
        pushed == pushw(ret.self, ret.v)
        b == set_status(pushed, Break, TRUE)
        p == push(b, b.registers.status)
        i == set_status(p, Irq, TRUE)
        vector == loadw(i, IRQ_VECTOR)
    IN SetReg(vector.self, "pc", vector.v)

cld(self) == set_status(self, Decimal, FALSE)
clc(self) == set_status(self, Carry, FALSE)
cli(self) == set_status(self, Irq, FALSE)
clv(self) == set_status(self, Overflow, FALSE)

compare(self, p, q) ==
    LET c == set_status(self, Carry, p >= q)
        d == Sub8(c, p, q)
    IN set_zn(d.self, d.v)

cmp(self, address) ==
    LET b == load(self, address) IN compare(b.self, self.registers.a, b.v)

cpx(self, address) ==
    LET b == load(self, address) IN compare(b.self, self.registers.x, b.v)

cpy(self, address) ==
    LET b == load(self, address) IN compare(b.self, self.registers.y, b.v)

dec(self, address) ==
    LET value == load(self, address)
        d == Sub8(value.self, value.v, 1)
    IN store(d.self, address, d.v)

dex(self) == LET d == Sub8(self, self.registers.x, 1) IN SetReg(d.self, "x", d.v)
dey(self) == LET d == Sub8(self, self.registers.y, 1) IN SetReg(d.self, "y", d.v)

eor(self, address) ==
    LET value == load(self, address)
        new_a == BitXor(value.self.registers.a, value.v)
    IN SetReg(set_zn(value.self, new_a), "a", new_a)

inc(self, address) ==
    LET value == load(self, address)
        i == Add8(value.self, value.v, 1)
    IN store(i.self, address, i.v)

inx(self) == LET i == Add8(self, self.registers.x, 1) IN SetReg(i.self, "x", i.v)
iny(self) == LET i == Add8(self, self.registers.y, 1) IN SetReg(i.self, "y", i.v)

jmpa(self) ==
    LET value == loadw_pc(self) IN SetReg(value.self, "pc", value.v)

jmpi(self) ==
    LET address == loadw_pc(self)
        value == loadw(address.self, address.v)
    IN SetReg(value.self, "pc", value.v)

jsr(self) ==
    LET address == loadw_pc(self)
        ret == Sub16(address.self, address.self.registers.pc, 1)
        pushed == pushw(ret.self, ret.v)
    IN SetReg(pushed, "pc", address.v)

lda(self, address) ==
    LET new_a == load(self, address)
    IN set_zn(SetReg(new_a.self, "a", new_a.v), new_a.v)

ldx(self, address) ==
    LET new_x == load(self, address)
    IN set_zn(SetReg(new_x.self, "x", new_x.v), new_x.v)

ldy(self, address) ==
    LET new_y == load(self, address)
    IN set_zn(SetReg(new_y.self, "y", new_y.v), new_y.v)

lsr(self, address) ==
    LET value == load(self, address) IN store(value.self, address, value.v \div 2)

lsra(self) == SetReg(self, "a", self.registers.a \div 2)

nop(self) == self

ora(self, address) ==
    LET value == load(self, address)
        new_a == BitOr(value.self.registers.a, value.v)
    IN set_zn(SetReg(value.self, "a", new_a), new_a)

pha(self) == push(self, self.registers.a)
php(self) == push(self, self.registers.status)
pla(self) == LET v == pull(self) IN SetReg(v.self, "a", v.v)
plp(self) == LET v == pull(self) IN SetReg(v.self, "status", v.v)

rti(self) ==
    LET v == pull(self)
        w == pullw(SetReg(v.self, "s", v.v))
    IN SetReg(w.self, "pc", w.v)

rts(self) ==
    LET w == pullw(self)
        target == Add16(w.self, w.v, 1)
    IN SetReg(target.self, "pc", target.v)

sec(self) == set_status(self, Carry, TRUE)
sed(self) == set_status(self, Decimal, TRUE)
sei(self) == set_status(self, Irq, TRUE)

----------------------------------------------------------------------------
(* CPU::execute: the arms of the match in source order, each              *)
(* <<opcode, addressing mode, handler>>; "implied" arms call the handler   *)
(* without an address. As in a Rust match, the first arm whose pattern     *)
(* equals the instruction is the one that runs.                            *)

OpcodeTable == <<
    <<\H69, "immediate_mode", "adc">>,
    <<\H65, "zero_page_mode", "adc">>,
    <<\H75, "zero_page_x_mode", "adc">>,
    <<\H60, "absolute_mode", "adc">>,
    <<\H7D, "absolute_x_mode", "adc">>,
    <<\H79, "absolute_y_mode", "adc">>,
    <<\H61, "indirect_x_mode", "adc">>,
    <<\H71, "indirect_y_mode", "adc">>,
    <<\H29, "immediate_mode", "and">>,
    <<\H25, "zero_page_mode", "and">>,
    <<\H35, "zero_page_x_mode", "and">>,
    <<\H2D, "absolute_mode", "and">>,
    <<\H3D, "absolute_x_mode", "and">>,
    <<\H39, "absolute_y_mode", "and">>,
    <<\H21, "indirect_x_mode", "and">>,
    <<\H31, "indirect_y_mode", "and">>,
    <<\H06, "zero_page_mode", "asl">>,
    <<\H16, "zero_page_x_mode", "asl">>,
    <<\H0E, "absolute_mode", "asl">>,
    <<\H1E, "absolute_x_mode", "asl">>,
    <<\H0A, "implied", "asla">>,
    <<\H90, "implied", "bcc">>,
    <<\HB0, "implied", "bcs">>,
    <<\HF0, "implied", "beq">>,
    <<\H30, "implied", "bmi">>,
    <<\HD0, "implied", "bne">>,
    <<\H10, "implied", "bpl">>,
    <<\H50, "implied", "bvc">>,
    <<\H70, "implied", "bvs">>,
    <<\H24, "zero_page_mode", "bit">>,
    <<\H2C, "absolute_mode", "bit">>,
    <<\H00, "implied", "brk">>,
    <<\HD8, "implied", "cld">>,
    <<\H18, "implied", "clc">>,
    <<\H58, "implied", "cli">>,
    <<\HB8, "implied", "clv">>,
    <<\HC9, "immediate_mode", "cmp">>,
    <<\HC5, "zero_page_mode", "cmp">>,
    <<\HD5, "zero_page_x_mode", "cmp">>,
    <<\HCD, "absolute_mode", "cmp">>,
    <<\HDD, "absolute_x_mode", "cmp">>,
    <<\HD9, "absolute_y_mode", "cmp">>,
    <<\HC1, "indirect_x_mode", "cmp">>,
    <<\HD1, "indirect_y_mode", "cmp">>,
    <<\HE0, "immediate_mode", "cpx">>,
    <<\HE4, "zero_page_mode", "cpx">>,
    <<\HEC, "absolute_mode", "cpx">>,
    <<\HC0, "immediate_mode", "cpy">>,
    <<\HC4, "zero_page_mode", "cpy">>,
    <<\HCC, "absolute_mode", "cpy">>,
    <<\HC6, "zero_page_mode", "dec">>,
    <<\HD6, "zero_page_x_mode", "dec">>,
    <<\HCE, "absolute_mode", "dec">>,
    <<\HDE, "absolute_x_mode", "dec">>,
    <<\HCA, "implied", "dex">>,
    <<\H88, "implied", "dey">>,
    <<\H49, "immediate_mode", "eor">>,
    <<\H45, "zero_page_mode", "eor">>,
    <<\H55, "zero_page_x_mode", "eor">>,
    <<\H4D, "absolute_mode", "eor">>,
    <<\H5D, "absolute_x_mode", "eor">>,
    <<\H59, "absolute_y_mode", "eor">>,
    <<\H41, "indirect_x_mode", "eor">>,
    <<\H51, "indirect_y_mode", "eor">>,
    <<\HE6, "zero_page_mode", "inc">>,
    <<\HF6, "zero_page_x_mode", "inc">>,
    <<\HEE, "absolute_mode", "inc">>,
    <<\HFE, "absolute_x_mode", "inc">>,
    <<\HE8, "implied", "inx">>,
    <<\HC8, "implied", "iny">>,
    <<\H4C, "implied", "jmpa">>,
    <<\H6C, "implied", "jmpi">>,
    <<\H20, "implied", "jsr">>,
    <<\HA9, "immediate_mode", "lda">>,
    <<\HA5, "zero_page_mode", "lda">>,
    <<\HB5, "zero_page_x_mode", "lda">>,
    <<\HAD, "absolute_mode", "lda">>,
    <<\HBD, "absolute_x_mode", "lda">>,
    <<\HB9, "absolute_y_mode", "lda">>,
    <<\HA1, "indirect_x_mode", "lda">>,
    <<\HB1, "indirect_y_mode", "lda">>,
    <<\HA2, "immediate_mode", "ldx">>,
    <<\HA6, "zero_page_mode", "ldx">>,
    <<\HB6, "zero_page_y_mode", "ldx">>,
    <<\HAE, "absolute_mode", "ldx">>,
    <<\HBE, "absolute_y_mode", "lda">>,
    <<\HA0, "immediate_mode", "ldy">>,
    <<\HA4, "zero_page_mode", "ldy">>,
    <<\HB4, "zero_page_x_mode", "ldy">>,
    <<\HAC, "absolute_mode", "ldy">>,
    <<\HBC, "absolute_x_mode", "ldy">>,
    <<\H46, "zero_page_mode", "lsr">>,
    <<\H56, "zero_page_x_mode", "lsr">>,
    <<\H4E, "absolute_mode", "lsr">>,
    <<\H5E, "absolute_x_mode", "lsr">>,
    <<\H4A, "implied", "lsra">>,
    <<\HEA, "implied", "nop">>,
    <<\H09, "immediate_mode", "ora">>,
    <<\H05, "zero_page_mode", "ora">>,
    <<\H15, "zero_page_x_mode", "ora">>,
    <<\H0D, "absolute_mode", "ora">>,
    <<\H1D, "absolute_x_mode", "ora">>,
    <<\H19, "absolute_y_mode", "ora">>,
    <<\H01, "indirect_x_mode", "ora">>,
    <<\H11, "indirect_y_mode", "ora">>,
    <<\H48, "implied", "pha">>,
    <<\H08, "implied", "php">>,
    <<\H68, "implied", "pla">>,
    <<\H28, "implied", "plp">>,
    <<\H4D, "implied", "rti">>,
    <<\H60, "implied", "rts">>,
    <<\H38, "implied", "sec">>,
    <<\HF8, "implied", "sed">>,
    <<\H78, "implied", "sei">>
>>

Resolve(self, mode) ==
    CASE mode = "absolute_mode" -> absolute_mode(self)
      [] mode = "absolute_x_mode" -> absolute_x_mode(self)
      [] mode = "absolute_y_mode" -> absolute_y_mode(self)
      [] mode = "immediate_mode" -> immediate_mode(self)
      [] mode = "indirect_x_mode" -> indirect_x_mode(self)
      [] mode = "indirect_y_mode" -> indirect_y_mode(self)
      [] mode = "zero_page_mode" -> zero_page_mode(self)
      [] mode = "zero_page_x_mode" -> zero_page_x_mode(self)
      [] mode = "zero_page_y_mode" -> zero_page_y_mode(self)

Handle(self, handler, address) ==
    CASE handler = "adc" -> adc(self, address)
      [] handler = "and" -> and(self, address)
      [] handler = "asl" -> asl(self, address)
      [] handler = "bit" -> bit(self, address)
      [] handler = "cmp" -> cmp(self, address)
      [] handler = "cpx" -> cpx(self, address)
      [] handler = "cpy" -> cpy(self, address)
      [] handler = "dec" -> dec(self, address)
      [] handler = "eor" -> eor(self, address)
      [] handler = "inc" -> inc(self, address)
      [] handler = "lda" -> lda(self, address)
      [] handler = "ldx" -> ldx(self, address)
      [] handler = "ldy" -> ldy(self, address)
      [] handler = "lsr" -> lsr(self, address)
      [] handler = "ora" -> ora(self, address)

HandleImplied(self, handler) ==
    CASE handler = "asla" -> asla(self)
      [] handler = "bcc" -> bcc(self)
      [] handler = "bcs" -> bcs(self)
      [] handler = "beq" -> beq(self)
      [] handler = "bmi" -> bmi(self)
      [] handler = "bne" -> bne(self)
      [] handler = "bpl" -> bpl(self)
      [] handler = "bvc" -> bvc(self)
      [] handler = "bvs" -> bvs(self)
      [] handler = "brk" -> brk(self)
      [] handler = "cld" -> cld(self)
      [] handler = "clc" -> clc(self)
      [] handler = "cli" -> cli(self)
      [] handler = "clv" -> clv(self)
      [] handler = "dex" -> dex(self)
      [] handler = "dey" -> dey(self)
      [] handler = "inx" -> inx(self)
      [] handler = "iny" -> iny(self)
      [] handler = "jmpa" -> jmpa(self)
      [] handler = "jmpi" -> jmpi(self)
      [] handler = "jsr" -> jsr(self)
      [] handler = "lsra" -> lsra(self)
      [] handler = "nop" -> nop(self)
      [] handler = "pha" -> pha(self)
      [] handler = "php" -> php(self)
      [] handler = "pla" -> pla(self)
      [] handler = "plp" -> plp(self)
      [] handler = "rti" -> rti(self)
      [] handler = "rts" -> rts(self)
      [] handler = "sec" -> sec(self)
      [] handler = "sed" -> sed(self)
      [] handler = "sei" -> sei(self)

\* The index of the arm that matches, 0 for the `_` arm
MatchArm(instruction) ==
    LET arms == {i \in 1..Len(OpcodeTable) : OpcodeTable[i][1] = instruction}
    IN IF arms = {} THEN 0 ELSE CHOOSE i \in arms : \A j \in arms : i <= j

\* CPU::execute with a `_` arm that does nothing
execute_unknown_as_nop(self, instruction) ==
    LET arm == MatchArm(instruction)
    IN IF arm = 0 THEN self
       ELSE IF OpcodeTable[arm][2] = "implied"
            THEN HandleImplied(self, OpcodeTable[arm][3])
            ELSE LET address == Resolve(self, OpcodeTable[arm][2])
                 IN Handle(address.self, OpcodeTable[arm][3], address.v)

execute(self, instruction) ==
    LET arm == MatchArm(instruction)
    IN IF arm = 0 THEN Panic(self, "unsupported_instruction")
       ELSE IF OpcodeTable[arm][2] = "implied"
            THEN HandleImplied(self, OpcodeTable[arm][3])
            ELSE LET address == Resolve(self, OpcodeTable[arm][2])
                 IN Handle(address.self, OpcodeTable[arm][3], address.v)

----------------------------------------------------------------------------
(* Power-up and the run loop.                                              *)

\* power_up that leaves the stack pointer as it was
power_up_keeping_s(self) ==
    LET a0 == SetReg(self, "a", 0)
        x0 == SetReg(a0, "x", 0)
        y0 == SetReg(x0, "y", 0)
        vector == NRomPRG_loadw(y0, RESET_VECTOR)
    IN set_status(SetReg(vector.self, "pc", vector.v), Irq, TRUE)

power_up(self) ==
    LET a0 == SetReg(self, "a", 0)
        x0 == SetReg(a0, "x", 0)
        y0 == SetReg(x0, "y", 0)
        s0 == SetReg(y0, "s", \HFD)
        vector == NRomPRG_loadw(s0, RESET_VECTOR)
    IN set_status(SetReg(vector.self, "pc", vector.v), Irq, TRUE)

power_up_with_pc_override(self, pc) ==
    LET a0 == SetReg(self, "a", 0)
        x0 == SetReg(a0, "x", 0)
        y0 == SetReg(x0, "y", 0)
        s0 == SetReg(y0, "s", \HFD)
    IN set_status(SetReg(s0, "pc", pc), Irq, TRUE)

\* A loop that returns from run when it fetches BRK
run_step_returning_on_brk(self) ==
    LET instruction == load_pc(self)
    IN IF instruction.self.fatal = "none" /\ instruction.v = \H00
       THEN [instruction.self EXCEPT !.fatal = "returned"]
       ELSE execute(instruction.self, instruction.v)

\* One turn of the loop of CPU::run
run_step(self) ==
    LET instruction == load_pc(self) IN execute(instruction.self, instruction.v)

----------------------------------------------------------------------------
(* Cartridges: PRG images as Ines::open cuts them (prg_rom_size units of   *)
(* PRG_UNIT_SIZE bytes) behind the NROM mapper.                            *)

NoCells == [c \in {} |-> 0]

\* The cells given as a set of <<offset, byte>> pairs
Cells(pairs) ==
    [c \in {p[1] : p \in pairs} |-> (CHOOSE p \in pairs : p[1] = c)[2]]

\* One 16 KB bank: JSR $9000 at $8000, RTS at $9000, and the reset vector
\* ($FFFC/$FFFD) holding $8000.
Image16 ==
    [len |-> 1 * PRG_UNIT_SIZE, seed |-> 0,
     patch |-> Cells({<<\H0000, \H20>>, <<\H0001, \H00>>, <<\H0002, \H90>>,
                      <<\H1000, \H60>>,
                      <<\H3FFC, \H00>>, <<\H3FFD, \H80>>})]

\* Two 16 KB banks, fill pattern only.
Image32 == [len |-> 2 * PRG_UNIT_SIZE, seed |-> 5, patch |-> NoCells]

Cartridges == {NRomPRG_new(1, Image16), NRomPRG_new(2, Image32)}

----------------------------------------------------------------------------
(* Calls and their record.                                                 *)

Self == [registers |-> registers, ram |-> ram, fatal |-> fatal]

NoCall ==
    [name |-> "new", arg |-> 0, ret |-> 0, pre |-> [s |-> 0, pc |-> 0], mem |-> NoCells]

\* The call `name(arg)` ended in CPU `self` and returned `ret`; `pre` and `mem`
\* keep the registers and the RAM the call found.
Called(name, arg, self, ret) ==
    /\ registers' = self.registers
    /\ ram' = self.ram
    /\ fatal' = self.fatal
    /\ last' = [name |-> name, arg |-> arg, ret |-> ret, pre |-> registers, mem |-> ram]
    /\ prev' = last
    /\ steps' = steps + 1
    /\ UNCHANGED <<cartridge, overflow_checks>>

\* CPU::new, then registers and RAM brought to the given contents.
Started(regs, cells, carts, builds) ==
    /\ registers \in regs
    /\ ram \in cells
    /\ cartridge \in carts
    /\ fatal = "none"
    /\ overflow_checks \in builds
    /\ last = [NoCall EXCEPT !.pre = registers, !.mem = ram]
    /\ prev = [NoCall EXCEPT !.pre = registers, !.mem = ram]
    /\ steps = 0

----------------------------------------------------------------------------
(* SpecStack: the stack helpers called in any order.                       *)

MaxStackOps == 2

StackPointers == {\H00, \H01, \H02, \H80, \HFD, \HFE, \HFF}
StackBytes == {\H00, \H01, \H7F, \H80, \HFF}
StackWords == {\H0000, \H0001, \H00FF, \H0100, \H1234, \H8000, \HFFFF}

InitStack ==
    Started([a : {0}, x : {0}, y : {0}, s : StackPointers, pc : {\H8000}, status : {\H04}],
            {NoCells}, {NRomPRG_new(1, Image16)}, BOOLEAN)

Push(value) ==
    /\ fatal = "none" /\ steps < MaxStackOps
    /\ Called("push", value, push(Self, value), 0)

Pushw(value) ==
    /\ fatal = "none" /\ steps < MaxStackOps
    /\ Called("pushw", value, pushw(Self, value), 0)

Pull ==
    /\ fatal = "none" /\ steps < MaxStackOps
    /\ LET r == pull(Self) IN Called("pull", 0, r.self, r.v)

Pullw ==
    /\ fatal = "none" /\ steps < MaxStackOps
    /\ LET r == pullw(Self) IN Called("pullw", 0, r.self, r.v)

NextStack ==
    \/ \E value \in StackBytes : Push(value)
    \/ \E value \in StackWords : Pushw(value)
    \/ Pull
    \/ Pullw

SpecStack == InitStack /\ [][NextStack]_vars

\* C1: push(v) immediately followed by pull() returns v and leaves the stack
\* pointer where it was before the push (s away from the wrap boundary).
C1_PushPullReturnsValue ==
    (prev.name = "push" /\ last.name = "pull" /\ prev.pre.s >= 1)
        => /\ fatal = "none"
           /\ last.ret = prev.arg
           /\ registers.s = prev.pre.s

\* C2: pushw(w) immediately followed by pullw() returns w, both bytes, and
\* leaves the stack pointer where it was before the pushw.
C2_PushwPullwReturnsWord ==
    (prev.name = "pushw" /\ last.name = "pullw" /\ prev.pre.s >= 2)
        => /\ fatal = "none"
           /\ last.ret = prev.arg
           /\ registers.s = prev.pre.s

----------------------------------------------------------------------------
(* Calls of CPU::execute. The caller has fetched the opcode, so pc points  *)
(* at the byte after it.                                                   *)

Execute(instruction, bound) ==
    /\ fatal = "none" /\ steps < bound
    /\ Called("execute", instruction, execute(Self, instruction), 0)

\* The handler and addressing mode of the arm the last executed opcode took
LastArm == MatchArm(last.arg)
LastHandler == IF LastArm = 0 THEN "none" ELSE OpcodeTable[LastArm][3]
LastMode == IF LastArm = 0 THEN "none" ELSE OpcodeTable[LastArm][2]

\* The CPU as the last call found it
Before == [registers |-> last.pre, ram |-> last.mem, fatal |-> "none"]

\* The byte / little-endian word the cartridge holds at an address
CartByte(address) == NRomPRG_load([Self EXCEPT !.fatal = "none"], address).v
CartWord(address) == CartByte(address) + 256 * CartByte(address + 1)

----------------------------------------------------------------------------
(* SpecCall: subroutine call and return opcodes executed back to back.     *)

MaxCallOps == 2

CallOpcodes == {\H20, \H60}
CallPcs == {\H8001, \H8101, \H9235, \HC001, \HFFF0}
CallStackPointers == {\H01, \H02, \H80, \HFD, \HFF}

InitCall ==
    Started([a : {\H00, \H50}, x : {0}, y : {0}, s : CallStackPointers,
             pc : CallPcs, status : {\H04, \H05}],
            {NoCells}, Cartridges, BOOLEAN)

NextCall == \E instruction \in CallOpcodes : Execute(instruction, MaxCallOps)

SpecCall == InitCall /\ [][NextCall]_vars

\* C3: JSR (0x20) at pc = P with target T sets pc to T; RTS (0x60) executed
\* next sets pc to P + 3 and restores the stack pointer.
\* (execute runs with pc = P + 1, the opcode already fetched.)
C3_JsrRtsRoundTrip ==
    /\ (last.name = "execute" /\ last.arg = \H20
          /\ last.pre.s >= 2 /\ last.pre.pc >= \H8001 /\ last.pre.pc <= \HFFFD)
          => /\ fatal = "none"
             /\ registers.pc = CartWord(last.pre.pc)
    /\ (prev.name = "execute" /\ prev.arg = \H20
          /\ prev.pre.s >= 2 /\ prev.pre.pc >= \H8001 /\ prev.pre.pc <= \HFFFD
          /\ last.name = "execute" /\ last.arg = \H60)
          => /\ fatal = "none"
             /\ registers.pc = (prev.pre.pc - 1) + 3
             /\ registers.s = prev.pre.s

----------------------------------------------------------------------------
(* SpecBranch: one branch opcode executed over every displacement byte.    *)

MaxBranchOps == 1

BranchOpcodes == {\H90, \HB0, \HF0, \H30, \HD0, \H10, \H50, \H70}

\* The displacement bytes at $8100-$81FF take every value 0..255.
BranchPcs == (\H8100 .. \H81FF) \cup {\H8000, \HFFFF}
BranchStatuses == {\H00, \H41, \H82, \HC3}

InitBranch ==
    Started([a : {\H5A}, x : {\H01}, y : {\H02}, s : {\HFD},
             pc : BranchPcs, status : BranchStatuses],
            {NoCells}, {NRomPRG_new(1, Image16)}, BOOLEAN)

NextBranch == \E instruction \in BranchOpcodes : Execute(instruction, MaxBranchOps)

SpecBranch == InitBranch /\ [][NextBranch]_vars

\* Whether the branch opcode is taken under a status byte
BranchTaken(instruction, status) ==
    LET set(flag) == BitAnd(status, flag) # 0
    IN CASE instruction = \H90 -> ~set(Carry)
         [] instruction = \HB0 -> set(Carry)
         [] instruction = \HF0 -> set(Zero)
         [] instruction = \HD0 -> ~set(Zero)
         [] instruction = \H30 -> set(Negative)
         [] instruction = \H10 -> ~set(Negative)
         [] instruction = \H50 -> ~set(Overflow)
         [] instruction = \H70 -> set(Overflow)

LastIsBranch == last.name = "execute" /\ last.arg \in BranchOpcodes

\* The two's-complement value of a displacement byte
Signed(d) == IF d >= 128 THEN d - 256 ELSE d

\* C4: a branch that is not taken leaves pc at the opcode's address plus 2
\* (last.pre.pc is the opcode's address plus 1) and changes no other register.
C4_BranchNotTakenSkipsOperand ==
    (LastIsBranch /\ ~BranchTaken(last.arg, last.pre.status) /\ last.pre.pc < \HFFFF)
        => /\ fatal = "none"
           /\ registers = [last.pre EXCEPT !.pc = last.pre.pc + 1]

\* C5: a taken branch sets pc to (pc after the displacement byte) + signed(d).
C5_BranchTakenSignedDisplacement ==
    (LastIsBranch /\ BranchTaken(last.arg, last.pre.status)
        /\ last.pre.pc >= \H8100 /\ last.pre.pc <= \H81FF)
        => /\ fatal = "none"
           /\ registers.pc = (last.pre.pc + 1) + Signed(CartByte(last.pre.pc))

----------------------------------------------------------------------------
(* SpecPower: power-up from any prior register state.                      *)

MaxPowerOps == 1

PowerRegisters ==
    [a : {\H00, \H5A}, x : {\H00, \HFF}, y : {\H00, \H01}, s : {\H00, \HFD},
     pc : {\H0000, \H1234}, status : {\H00, \H04, \HFB}]
PowerPcs == {\H0000, \H8000, \HC123, \HFFFF}

InitPower == Started(PowerRegisters, {NoCells}, Cartridges, BOOLEAN)

PowerUp ==
    /\ fatal = "none" /\ steps < MaxPowerOps
    /\ Called("power_up", 0, power_up(Self), 0)

PowerUpWithPcOverride(pc) ==
    /\ fatal = "none" /\ steps < MaxPowerOps
    /\ Called("power_up_with_pc_override", pc, power_up_with_pc_override(Self, pc), 0)

NextPower ==
    \/ PowerUp
    \/ \E pc \in PowerPcs : PowerUpWithPcOverride(pc)

SpecPower == InitPower /\ [][NextPower]_vars

\* The register file power-up leaves, given the program counter it loads
PoweredUp(pc) ==
    /\ fatal = "none"
    /\ registers.a = 0 /\ registers.x = 0 /\ registers.y = 0
    /\ registers.s = \HFD
    /\ registers.status = BitOr(last.pre.status, Irq)
    /\ registers.pc = pc

\* C6: after power_up A = X = Y = 0, S = 0xFD, IRQ-disable is set and PC is the
\* little-endian word at $FFFC/$FFFD; power_up_with_pc_override(pc) gives the
\* same state with PC = pc.
C6_PowerUpState ==
    /\ last.name = "power_up" => PoweredUp(CartWord(\HFFFC))
    /\ last.name = "power_up_with_pc_override" => PoweredUp(last.arg)

C6_Witness ==
    /\ last.name = "power_up"
    /\ last.pre.a = \H5A /\ last.pre.s = \H00 /\ last.pre.status = \H00
    /\ cartridge.prg_rom_size = 1
    /\ registers.pc = \H8000 /\ registers.s = \HFD /\ registers.status = \H04

----------------------------------------------------------------------------
(* SpecBus: loads and stores on the CPU bus and loads on the mapper.       *)

MaxBusOps == 2

\* The first and last address of every region of the bus and of every RAM
\* mirror, and the stack slot $01FD with its three mirrors.
BusAddresses ==
    {\H0000, \H0001, \H01FD, \H07FF,
     \H0800, \H0801, \H09FD, \H0FFF, \H1000, \H11FD, \H17FF, \H1800, \H19FD, \H1FFF,
     \H2000, \H2007, \H2008, \H3FFF, \H4000, \H401F,
     \H4020, \H7FFF, \H8000, \HBFFF, \HC000, \HFFFF}
BusBytes == {\H00, \H5A, \HA5}

\* Offsets into a PRG bank, and the mapper addresses that reach them
MapperOffsets == {\H0000, \H0001, \H00FF, \H0100, \H1234, \H3FFC, \H3FFF}
MapperAddresses ==
    {\H8000 + k : k \in MapperOffsets} \cup {\HC000 + k : k \in MapperOffsets}
        \cup {\H0000, \H4020, \H6000, \H7FFF}

InitBus ==
    Started([a : {0}, x : {0}, y : {0}, s : {\HFD}, pc : {\H8000}, status : {\H04}],
            {NoCells}, Cartridges, BOOLEAN)

Load(address) ==
    /\ fatal = "none" /\ steps < MaxBusOps
    /\ LET r == load(Self, address) IN Called("load", address, r.self, r.v)

Store(address, value) ==
    /\ fatal = "none" /\ steps < MaxBusOps
    /\ Called("store", <<address, value>>, store(Self, address, value), 0)

MapperLoad(address) ==
    /\ fatal = "none" /\ steps < MaxBusOps
    /\ LET r == NRomPRG_load(Self, address) IN Called("mapper_load", address, r.self, r.v)

NextBus ==
    \/ \E address \in BusAddresses : Load(address)
    \/ \E address \in BusAddresses, value \in BusBytes : Store(address, value)
    \/ \E address \in MapperAddresses : MapperLoad(address)

SpecBus == InitBus /\ [][NextBus]_vars

\* The byte RAM holds at a canonical address
RamByte(address) == IF address \in DOMAIN ram THEN ram[address] ELSE 0

\* C7: a store to an address in $0800-$1FFF is routed to internal RAM at
\* address mod $0800, as a load of that address is; no address is left
\* without a target.
C7_StoreRoutedLikeLoad ==
    /\ fatal # "unreachable"
    /\ (last.name = "store" /\ last.arg[1] >= \H0800 /\ last.arg[1] <= \H1FFF)
          => /\ fatal = "none"
             /\ RamByte(last.arg[1] % \H0800) = last.arg[2]

\* C8: a load of a mirror address r in $0800-$1FFF returns the byte a load of
\* the canonical address r mod $0800 returns, whatever was stored before.
C8_MirrorLoadEqualsCanonical ==
    (last.name = "load" /\ last.arg >= \H0800 /\ last.arg <= \H1FFF)
        => /\ fatal = "none"
           /\ last.ret = RamByte(last.arg % \H0800)
           /\ last.ret = load(Self, last.arg % \H0800).v

C8_Witness ==
    /\ prev.name = "store" /\ prev.arg = <<\H01FD, \HA5>>
    /\ last.name = "load" /\ last.arg = \H19FD /\ last.ret = \HA5

\* C9: with one 16 KB PRG unit the mapper returns the same PRG byte, the one
\* at offset k, for $8000+k and $C000+k; with two units $8000+k reads PRG
\* offset k and $C000+k reads PRG offset $4000+k.
C9_NromMirroring ==
    (last.name = "mapper_load" /\ last.arg >= \H8000)
        => /\ fatal = "none"
           /\ cartridge.prg_rom_size = 1 =>
                 last.ret = ImageByte(cartridge.prg, last.arg % \H4000)
           /\ cartridge.prg_rom_size = 2 =>
                 last.ret = ImageByte(cartridge.prg, last.arg - \H8000)

C9_Witness ==
    /\ cartridge.prg_rom_size = 1
    /\ prev.name = "mapper_load" /\ prev.arg = \H8000 + \H1234
    /\ last.name = "mapper_load" /\ last.arg = \HC000 + \H1234
    /\ last.ret = prev.ret /\ last.ret = \H6A

----------------------------------------------------------------------------
(* SpecAlu: one arithmetic opcode executed over every memory operand.      *)

MaxAluOps == 1

\* ADC immediate and ADC zero page
AluOpcodes == {\H69, \H65}

\* The operand bytes at $8100-$81FF take every value 0..255.
AluPcs == \H8100 .. \H81FF
AluBytes == {\H00, \H01, \H0F, \H10, \H3F, \H40, \H50, \H7F, \H80, \H81, \HB0, \HFF}
AluStatuses == {\H00, \H01, \H40, \HC3}

\* Zero-page RAM after earlier stores
AluRam ==
    Cells({<<\H00, \HFF>>, <<\H01, \H01>>, <<\H50, \H50>>, <<\H7F, \H80>>,
           <<\H80, \H7F>>, <<\HFE, \HD0>>})

InitAlu ==
    Started([a : AluBytes, x : {\H01}, y : {\H02}, s : {\HFD},
             pc : AluPcs, status : AluStatuses],
            {AluRam}, {NRomPRG_new(1, Image16)}, BOOLEAN)

NextAlu == \E instruction \in AluOpcodes : Execute(instruction, MaxAluOps)

SpecAlu == InitAlu /\ [][NextAlu]_vars

\* The memory operand M of the last executed opcode: the byte at the address
\* its addressing mode resolves to
LastOperand ==
    LET address == Resolve(Before, LastMode) IN load(address.self, address.v).v

LastCarryIn == IF BitAnd(last.pre.status, Carry) # 0 THEN 1 ELSE 0

\* C10: after ADC, A = (A + M + c) mod 256, Carry is set exactly when
\* A + M + c > 0xFF, and Zero / Negative are those of the 8-bit result.
C10_AdcResult ==
    (last.name = "execute" /\ LastHandler = "adc")
        => LET sum == last.pre.a + LastOperand + LastCarryIn
           IN /\ fatal = "none"
              /\ registers.a = sum % 256
              /\ get_status(Self, Carry) <=> (sum > \HFF)
              /\ get_status(Self, Zero) <=> (sum % 256 = 0)
              /\ get_status(Self, Negative) <=> (sum % 256 >= \H80)

C10_Witness ==
    /\ last.name = "execute" /\ last.arg = \H69
    /\ last.pre.a = \HB0 /\ LastOperand = \H50 /\ LastCarryIn = 1
    /\ registers.a = \H01 /\ get_status(Self, Carry)
    /\ ~get_status(Self, Zero) /\ ~get_status(Self, Negative)

\* C11: after ADC the Overflow flag is set exactly when A and M have the same
\* sign bit and the 8-bit result's sign bit differs from it, whatever the flag
\* held before.
C11_AdcOverflowFlag ==
    (last.name = "execute" /\ LastHandler = "adc")
        => LET sum == (last.pre.a + LastOperand + LastCarryIn) % 256
               sign(v) == v >= \H80
           IN /\ fatal = "none"
              /\ get_status(Self, Overflow)
                    <=> (sign(last.pre.a) = sign(LastOperand) /\ sign(sum) # sign(last.pre.a))

----------------------------------------------------------------------------
(* SpecCompare: one compare opcode executed over every memory operand.     *)

MaxCompareOps == 1

\* CMP, CPX and CPY immediate, and CMP zero page
CompareOpcodes == {\HC9, \HE0, \HC0, \HC5}

\* The operand bytes at $8100-$81FF take every value 0..255.
ComparePcs == \H8100 .. \H81FF
CompareStatuses == {\H00, \HC3}

InitCompare ==
    Started([a : {\H00, \H01, \H7F, \H80, \HFF}, x : {\H00, \H80}, y : {\H01, \HFF},
             s : {\HFD}, pc : ComparePcs, status : CompareStatuses],
            {AluRam}, {NRomPRG_new(1, Image16)}, BOOLEAN)

NextCompare == \E instruction \in CompareOpcodes : Execute(instruction, MaxCompareOps)

SpecCompare == InitCompare /\ [][NextCompare]_vars

\* The register R the last executed compare opcode compares with memory
LastCompared ==
    CASE LastHandler = "cmp" -> last.pre.a
      [] LastHandler = "cpx" -> last.pre.x
      [] LastHandler = "cpy" -> last.pre.y

\* C12: CMP / CPX / CPY complete without a fatal condition for every R and M,
\* R < M included; Carry is set exactly when R >= M, Zero and Negative are
\* those of (R - M) mod 256, and A, X, Y and S keep their values.
C12_CompareFlags ==
    (last.name = "execute" /\ LastHandler \in {"cmp", "cpx", "cpy"})
        => LET difference == (LastCompared - LastOperand + 256) % 256
           IN /\ fatal = "none"
              /\ get_status(Self, Carry) <=> (LastCompared >= LastOperand)
              /\ get_status(Self, Zero) <=> (difference = 0)
              /\ get_status(Self, Negative) <=> (difference >= \H80)
              /\ registers.a = last.pre.a /\ registers.x = last.pre.x
              /\ registers.y = last.pre.y /\ registers.s = last.pre.s

----------------------------------------------------------------------------
(* SpecDecode: every opcode byte handed to execute.                        *)

MaxDecodeOps == 1

Opcodes == 0 .. 255

\* The opcode bytes the match of execute has an arm for
MappedOpcodes == {OpcodeTable[i][1] : i \in 1 .. Len(OpcodeTable)}

InitDecode ==
    Started([a : {\H5A}, x : {\H01}, y : {\H02}, s : {\HFD},
             pc : {\H8001, \H8101}, status : {\H04, \HC3}],
            {AluRam}, {NRomPRG_new(1, Image16)}, BOOLEAN)

NextDecode == \E instruction \in Opcodes : Execute(instruction, MaxDecodeOps)

SpecDecode == InitDecode /\ [][NextDecode]_vars

\* C13: execute(op) for an opcode byte without an arm ends in the fatal
\* condition 'unsupported instruction' and leaves every register and every
\* RAM cell as it found them.
C13_UnmappedOpcodeIsFatal ==
    (last.name = "execute" /\ last.arg \notin MappedOpcodes)
        => /\ fatal = "unsupported_instruction"
           /\ registers = last.pre
           /\ ram = last.mem

C13_Witness ==
    /\ last.name = "execute" /\ last.arg = \H02
    /\ last.pre.status = \HC3 /\ last.pre.pc = \H8101
    /\ fatal = "unsupported_instruction"
    /\ registers.pc = \H8101 /\ registers.status = \HC3 /\ ram = AluRam

----------------------------------------------------------------------------
(* SpecBus, continued: the regions of the bus that are not RAM.            *)

\* The address of the last load or store
LastAddress == IF last.name = "store" THEN last.arg[1] ELSE last.arg

\* C14: every load and every store with an address in $2000-$401F ends in
\* the fatal condition 'unimplemented'; it changes no RAM cell, no register
\* and nothing in the cartridge.
C14_RegistersUnimplemented ==
    (last.name \in {"load", "store"} /\ LastAddress >= \H2000 /\ LastAddress <= \H401F)
        => /\ fatal = "unimplemented"
           /\ ram = last.mem
           /\ registers = last.pre
           /\ cartridge \in Cartridges

C14_Witness ==
    /\ prev.name = "store" /\ prev.arg = <<\H0001, \H5A>>
    /\ last.name = "store" /\ last.arg = <<\H2007, \HA5>>
    /\ fatal = "unimplemented"
    /\ ram = Cells({<<\H0001, \H5A>>})

\* C15: every store routed to cartridge space ($4020-$FFFF) ends in the fatal
\* condition 'invalid write' and is never silently dropped; RAM is untouched
\* and the mapper still returns the PRG byte the image was built with.
C15_CartridgeIsReadOnly ==
    (last.name = "store" /\ LastAddress >= \H4020 /\ LastAddress <= \HFFFF)
        => /\ fatal = "invalid_write"
           /\ ram = last.mem
           /\ cartridge \in Cartridges
           /\ LastAddress >= \H8000 =>
                 CartByte(LastAddress) =
                     ImageByte(cartridge.prg,
                               IF cartridge.prg_rom_size = 1 THEN LastAddress % \H4000
                               ELSE LastAddress - \H8000)

C15_Witness ==
    /\ cartridge.prg_rom_size = 1
    /\ last.name = "store" /\ last.arg = <<\H8000, \HA5>>
    /\ fatal = "invalid_write"
    /\ CartByte(\H8000) = \H20

\* C16: a mapper load with an address below $8000, the CPU-bus loads of
\* $4020-$7FFF included, ends in the fatal condition 'invalid access' and
\* returns no byte.
C16_MapperRangeCheck ==
    /\ (last.name = "mapper_load" /\ last.arg < \H8000) => fatal = "invalid_prg_access"
    /\ (last.name = "load" /\ last.arg >= \H4020 /\ last.arg < \H8000)
          => fatal = "invalid_prg_access"

C16_Witness ==
    /\ prev.name = "mapper_load" /\ prev.arg = \H8000
    /\ last.name = "load" /\ last.arg = \H7FFF
    /\ fatal = "invalid_prg_access"

----------------------------------------------------------------------------
(* Ines::open: the iNES image cut into its PRG and CHR segments. The file  *)
(* is given by its length and the two unit counts of its header.           *)

CHR_UNIT_SIZE == 8192

\* The header is read into a [u8; 16]
HEADER_SIZE == 16

Ok(v) == [ok |-> TRUE, v |-> v]
Err(error) == [ok |-> FALSE, error |-> error]

\* Ines::open testing the CHR segment against all the data after the header
Ines_open_unsplit(prg_rom_size, chr_rom_size, file_len) ==
    IF file_len < HEADER_SIZE THEN Err("failed_to_read_header")
    ELSE LET data == file_len - HEADER_SIZE
         IN IF data < prg_rom_size * PRG_UNIT_SIZE THEN Err("prg_rom_incomplete")
            ELSE IF data < chr_rom_size * CHR_UNIT_SIZE THEN Err("chr_rom_incomplete")
            ELSE Ok([prg_rom_size |-> prg_rom_size, chr_rom_size |-> chr_rom_size,
                     prg_rom |-> prg_rom_size * PRG_UNIT_SIZE,
                     chr_rom |-> chr_rom_size * CHR_UNIT_SIZE])

\* Ines::open; of an Ines the header's unit counts and the lengths of prg_rom
\* and chr_rom are kept
Ines_open(prg_rom_size, chr_rom_size, file_len) ==
    IF file_len < HEADER_SIZE THEN Err("failed_to_read_header")
    ELSE LET data == file_len - HEADER_SIZE
         IN IF data < prg_rom_size * PRG_UNIT_SIZE THEN Err("prg_rom_incomplete")
            ELSE LET rest == data - prg_rom_size * PRG_UNIT_SIZE
                 IN IF rest < chr_rom_size * CHR_UNIT_SIZE THEN Err("chr_rom_incomplete")
                    ELSE Ok([prg_rom_size |-> prg_rom_size, chr_rom_size |-> chr_rom_size,
                             prg_rom |-> prg_rom_size * PRG_UNIT_SIZE,
                             chr_rom |-> chr_rom_size * CHR_UNIT_SIZE])

----------------------------------------------------------------------------
(* SpecOpen: image files of every interesting length opened.               *)

MaxOpenOps == 1

UnitCounts == 0 .. 2

\* File lengths around the header and around every PRG / CHR segment boundary
FileLengths ==
    {0} \cup
    {HEADER_SIZE + n + d : n \in {0, 8192, 16384, 24576, 32768, 40960, 49152},
                           d \in {-1, 0, 1}}

InitOpen ==
    Started([a : {0}, x : {0}, y : {0}, s : {\HFD}, pc : {\H8000}, status : {\H04}],
            {NoCells}, {NRomPRG_new(1, Image16)}, BOOLEAN)

Open(prg_rom_size, chr_rom_size, file_len) ==
    /\ fatal = "none" /\ steps < MaxOpenOps
    /\ Called("open", <<prg_rom_size, chr_rom_size, file_len>>, Self,
              Ines_open(prg_rom_size, chr_rom_size, file_len))

NextOpen ==
    \E prg_rom_size \in UnitCounts, chr_rom_size \in UnitCounts, file_len \in FileLengths :
        Open(prg_rom_size, chr_rom_size, file_len)

SpecOpen == InitOpen /\ [][NextOpen]_vars

----------------------------------------------------------------------------
(* SpecFlags: set_zn called with every byte.                               *)

MaxFlagOps == 1

Bytes == 0 .. 255
FlagStatuses == {\H00, \H7D, \HFF}

InitFlags ==
    Started([a : {\H5A}, x : {\H01}, y : {\H02}, s : {\HFD}, pc : {\H8000},
             status : FlagStatuses],
            {NoCells}, {NRomPRG_new(1, Image16)}, BOOLEAN)

SetZn(value) ==
    /\ fatal = "none" /\ steps < MaxFlagOps
    /\ Called("set_zn", value, set_zn(Self, value), 0)

NextFlags == \E value \in Bytes : SetZn(value)

SpecFlags == InitFlags /\ [][NextFlags]_vars

\* The status bits other than Zero and Negative
OtherFlags(status) == BitAnd(status, 255 - Zero - Negative)

\* C18: set_zn(v) sets Zero exactly when v = 0 and Negative exactly when bit 7
\* of v is set, and leaves every other status bit and every other register
\* unchanged.
C18_SetZnFlags ==
    last.name = "set_zn" =>
        /\ fatal = "none"
        /\ get_status(Self, Zero) <=> (last.arg = 0)
        /\ get_status(Self, Negative) <=> ((last.arg \div 128) % 2 = 1)
        /\ OtherFlags(registers.status) = OtherFlags(last.pre.status)
        /\ [registers EXCEPT !.status = 0] = [last.pre EXCEPT !.status = 0]

C18_Witness ==
    /\ last.name = "set_zn" /\ last.arg = \H80
    /\ last.pre.status = \H7D
    /\ registers.status = \HFD

----------------------------------------------------------------------------
(* SpecMode: the operand-address resolvers called with pc at every operand *)
(* byte.                                                                   *)

MaxModeOps == 1

\* The operand bytes at $8100-$81FF take every value 0..255.
ModePcs == (\H8100 .. \H81FF) \cup {\H8001, \HC000}
ModeIndexes == {\H00, \H01, \H80, \HFF}

InitMode ==
    Started([a : {\H5A}, x : ModeIndexes, y : ModeIndexes, s : {\HFD},
             pc : ModePcs, status : {\H04}],
            {AluRam}, Cartridges, BOOLEAN)

AbsoluteMode ==
    /\ fatal = "none" /\ steps < MaxModeOps
    /\ LET r == absolute_mode(Self) IN Called("absolute_mode", 0, r.self, r.v)

AbsoluteXMode ==
    /\ fatal = "none" /\ steps < MaxModeOps
    /\ LET r == absolute_x_mode(Self) IN Called("absolute_x_mode", 0, r.self, r.v)

AbsoluteYMode ==
    /\ fatal = "none" /\ steps < MaxModeOps
    /\ LET r == absolute_y_mode(Self) IN Called("absolute_y_mode", 0, r.self, r.v)

ZeroPageXMode ==
    /\ fatal = "none" /\ steps < MaxModeOps
    /\ LET r == zero_page_x_mode(Self) IN Called("zero_page_x_mode", 0, r.self, r.v)

ZeroPageYMode ==
    /\ fatal = "none" /\ steps < MaxModeOps
    /\ LET r == zero_page_y_mode(Self) IN Called("zero_page_y_mode", 0, r.self, r.v)

NextMode ==
    \/ AbsoluteMode
    \/ AbsoluteXMode
    \/ AbsoluteYMode
    \/ ZeroPageXMode
    \/ ZeroPageYMode

SpecMode == InitMode /\ [][NextMode]_vars

\* The index register the last resolver adds, 0 for the unindexed form
LastIndex ==
    CASE last.name \in {"absolute_x_mode", "zero_page_x_mode"} -> last.pre.x
      [] last.name \in {"absolute_y_mode", "zero_page_y_mode"} -> last.pre.y
      [] OTHER -> 0

\* C19: the Absolute, Absolute,X and Absolute,Y resolvers return the
\* little-endian word held in the two memory bytes at pc and pc + 1 (plus the
\* index register, in 16 bits) and advance pc by exactly 2.
C19_AbsoluteOperandWord ==
    (last.name \in {"absolute_mode", "absolute_x_mode", "absolute_y_mode"})
        => /\ fatal = "none"
           /\ last.ret = (CartWord(last.pre.pc) + LastIndex) % 65536
           /\ registers.pc = last.pre.pc + 2

\* C20: the Zero-page,X and Zero-page,Y resolvers return (b + i) mod 256 for
\* the operand byte b at pc and the index register i, without a fatal
\* condition even when b + i exceeds 0xFF, and advance pc by exactly 1.
C20_ZeroPageIndexWraps ==
    (last.name \in {"zero_page_x_mode", "zero_page_y_mode"})
        => /\ fatal = "none"
           /\ last.ret = (CartByte(last.pre.pc) + LastIndex) % 256
           /\ registers.pc = last.pre.pc + 1

----------------------------------------------------------------------------
(* SpecStack, continued: the stack pointer at the ends of page 1.          *)

\* C21: a push with s = 0x00 stores at $0100 and leaves s = 0xFF, a pull with
\* s = 0xFF leaves s = 0x00, neither ends in a fatal condition, and every
\* push writes its byte in page 1, at $0100 + s.
C21_StackPointerWraps ==
    /\ (last.name = "push" /\ last.pre.s = \H00)
          => /\ fatal = "none"
             /\ RamByte(\H0100) = last.arg
             /\ registers.s = \HFF
    /\ (last.name = "pull" /\ last.pre.s = \HFF)
          => /\ fatal = "none"
             /\ registers.s = \H00
    /\ last.name = "push"
          => /\ RamByte(\H0100 + last.pre.s) = last.arg
             /\ \A c \in DOMAIN ram \ DOMAIN last.mem : c >= \H0100 /\ c <= \H01FF

----------------------------------------------------------------------------
(* SpecInterrupt: BRK and the return-from-interrupt opcodes, and rti       *)
(* called directly.                                                        *)

MaxInterruptOps == 2

\* BRK, the opcode of the `=> self.rti()` arm, and the 6502's RTI
InterruptOpcodes == {\H00, \H4D, \H40}

InterruptPcs == {\H8001, \H8101, \HC235, \HFFF0}
InterruptStackPointers == {\H03, \H80, \HFD, \HFF}
InterruptStatuses == {\H00, \H04, \HC3, \HEF}

InitInterrupt ==
    Started([a : {\H5A}, x : {\H01}, y : {\H02}, s : InterruptStackPointers,
             pc : InterruptPcs, status : InterruptStatuses],
            {NoCells}, Cartridges, BOOLEAN)

Rti ==
    /\ fatal = "none" /\ steps < MaxInterruptOps
    /\ Called("rti", 0, rti(Self), 0)

NextInterrupt ==
    \/ \E instruction \in InterruptOpcodes : Execute(instruction, MaxInterruptOps)
    \/ Rti

SpecInterrupt == InitInterrupt /\ [][NextInterrupt]_vars

LastIsRti ==
    \/ last.name = "rti"
    \/ last.name = "execute" /\ last.arg = \H4D

\* C23: RTI pops one byte into the status register and then a word into pc:
\* after BRK then RTI, pc is the word BRK pushed, status the byte BRK pushed
\* and the stack pointer is back at its value before BRK; the RTI opcode
\* executed through execute does what rti does.
C23_RtiRestoresState ==
    /\ (prev.name = "execute" /\ prev.arg = \H00 /\ prev.pre.s >= 3 /\ LastIsRti)
          => /\ fatal = "none"
             /\ registers.pc = prev.pre.pc + 1
             /\ registers.status = BitOr(prev.pre.status, Break)
             /\ registers.s = prev.pre.s
    /\ (last.name = "execute" /\ last.arg = \H4D)
          => [registers |-> registers, ram |-> ram, fatal |-> fatal] = rti(Before)

----------------------------------------------------------------------------
(* SpecShift: the shift opcodes on the accumulator and on a zero-page cell. *)

MaxShiftOps == 1

\* ASL A, LSR A, ASL zero page, LSR zero page
ShiftOpcodes == {\H0A, \H4A, \H06, \H46}

\* The operand byte at $810D is 0x10: the memory forms shift the cell $0010.
ShiftPcs == {\H810D}
ShiftCell == \H0010
ShiftBytes == {\H00, \H01, \H02, \H40, \H55, \H7F, \H80, \H81, \HAA, \HFE, \HFF}
ShiftStatuses == {\H00, \HC3}

InitShift ==
    Started([a : Bytes, x : {\H01}, y : {\H02}, s : {\HFD},
             pc : ShiftPcs, status : ShiftStatuses],
            {Cells({<<ShiftCell, v>>}) : v \in ShiftBytes \ {0}} \cup {NoCells},
            {NRomPRG_new(1, Image16)}, BOOLEAN)

NextShift == \E instruction \in ShiftOpcodes : Execute(instruction, MaxShiftOps)

SpecShift == InitShift /\ [][NextShift]_vars

LastIsShift == last.name = "execute" /\ LastHandler \in {"asl", "asla", "lsr", "lsra"}

\* The operand v of the last shift and the value it wrote back
ShiftOperand ==
    IF LastHandler \in {"asla", "lsra"} THEN last.pre.a
    ELSE IF ShiftCell \in DOMAIN last.mem THEN last.mem[ShiftCell] ELSE 0

ShiftWritten ==
    IF LastHandler \in {"asla", "lsra"} THEN registers.a ELSE RamByte(ShiftCell)

\* C24: ASL sets Carry to bit 7 of v and writes (v << 1) mod 256, LSR sets
\* Carry to bit 0 of v and writes v >> 1, in the memory and the accumulator
\* forms, and Zero and Negative are those of the shifted result.
C24_ShiftFlags ==
    LastIsShift =>
        LET left == LastHandler \in {"asl", "asla"}
            result == IF left THEN (ShiftOperand * 2) % 256 ELSE ShiftOperand \div 2
        IN /\ fatal = "none"
           /\ ShiftWritten = result
           /\ get_status(Self, Carry)
                 <=> (IF left THEN ShiftOperand >= \H80 ELSE ShiftOperand % 2 = 1)
           /\ get_status(Self, Zero) <=> (result = 0)
           /\ get_status(Self, Negative) <=> (result >= \H80)

----------------------------------------------------------------------------
(* SpecStep: the increment and decrement opcodes on X, Y and a zero-page   *)
(* cell.                                                                   *)

MaxStepOps == 1

\* INC zero page, DEC zero page, INX, INY, DEX, DEY
StepOpcodes == {\HE6, \HC6, \HE8, \HC8, \HCA, \H88}

\* The operand byte at $810D is 0x10: INC / DEC work on the cell $0010.
StepPcs == {\H810D}
StepCell == \H0010
StepBytes == {\H00, \H7F, \HFF}
StepStatuses == {\H00, \HC3}

InitStep ==
    Started([a : {\H5A}, x : Bytes, y : StepBytes, s : {\HFD},
             pc : StepPcs, status : StepStatuses],
            {Cells({<<StepCell, v>>}) : v \in StepBytes \ {0}} \cup {NoCells},
            {NRomPRG_new(1, Image16)}, BOOLEAN)

NextStep == \E instruction \in StepOpcodes : Execute(instruction, MaxStepOps)

SpecStep == InitStep /\ [][NextStep]_vars

LastIsStep ==
    last.name = "execute" /\ LastHandler \in {"inc", "inx", "iny", "dec", "dex", "dey"}

\* The operand v of the last increment / decrement and the value written back
StepOperand ==
    CASE LastHandler \in {"inx", "dex"} -> last.pre.x
      [] LastHandler \in {"iny", "dey"} -> last.pre.y
      [] OTHER -> IF StepCell \in DOMAIN last.mem THEN last.mem[StepCell] ELSE 0

StepWritten ==
    CASE LastHandler \in {"inx", "dex"} -> registers.x
      [] LastHandler \in {"iny", "dey"} -> registers.y
      [] OTHER -> RamByte(StepCell)

\* C25: INC / INX / INY write (v + 1) mod 256 and DEC / DEX / DEY write
\* (v - 1) mod 256, without a fatal condition at 0xFF / 0x00, and set Zero and
\* Negative from the value written.
C25_StepWrapsAndFlags ==
    LastIsStep =>
        LET result == IF LastHandler \in {"inc", "inx", "iny"}
                      THEN (StepOperand + 1) % 256
                      ELSE (StepOperand + 255) % 256
        IN /\ fatal = "none"
           /\ StepWritten = result
           /\ get_status(Self, Zero) <=> (result = 0)
           /\ get_status(Self, Negative) <=> (result >= \H80)

----------------------------------------------------------------------------
(* SpecFetch: bytes and words fetched at pc, in RAM and in cartridge space. *)

MaxFetchOps == 1

FetchPcs ==
    (\H0000 .. \H001F) \cup (\H0800 .. \H081F)
        \cup {\H07FF, \H1FFE, \H8000, \H8100, \HBFFF, \HC000, \HFFFD}

\* RAM after a program was stored at $0000
FetchRam ==
    Cells({<<\H0000, \HA9>>, <<\H0001, \H5A>>, <<\H0002, \H4C>>, <<\H0003, \H00>>,
           <<\H0004, \H80>>, <<\H0010, \HEA>>, <<\H07FF, \H60>>})

InitFetch ==
    Started([a : {0}, x : {0}, y : {0}, s : {\HFD}, pc : FetchPcs, status : {\H04}],
            {FetchRam}, Cartridges, BOOLEAN)

LoadPc ==
    /\ fatal = "none" /\ steps < MaxFetchOps
    /\ LET r == load_pc(Self) IN Called("load_pc", 0, r.self, r.v)

LoadwPc ==
    /\ fatal = "none" /\ steps < MaxFetchOps
    /\ LET r == loadw_pc(Self) IN Called("loadw_pc", 0, r.self, r.v)

NextFetch ==
    \/ LoadPc
    \/ LoadwPc

SpecFetch == InitFetch /\ [][NextFetch]_vars

\* The byte a load on the CPU bus returns for an address, as the last call
\* found the CPU
BusByte(address) == load(Before, address).v

\* C26: a byte fetched at pc is the byte a load of pc on the bus returns, so
\* with pc in $0000-$1FFF it is the RAM byte at pc mod $0800; a word is two
\* such bytes, low byte first; pc advances by 1 per byte fetched.
C26_FetchThroughBus ==
    /\ last.name = "load_pc"
          => /\ fatal = "none"
             /\ last.ret = BusByte(last.pre.pc)
             /\ last.pre.pc <= \H1FFF => last.ret = RamByte(last.pre.pc % \H0800)
             /\ registers.pc = last.pre.pc + 1
    /\ last.name = "loadw_pc"
          => /\ fatal = "none"
             /\ last.ret = BusByte(last.pre.pc) + 256 * BusByte(last.pre.pc + 1)
             /\ registers.pc = last.pre.pc + 2

----------------------------------------------------------------------------
(* SpecLoad: every register-load opcode executed over every operand byte.  *)

MaxLoadOps == 1

\* The opcodes under `// LDA`, `// LDX` and `// LDY` in execute
LdaOpcodes == {\HA9, \HA5, \HB5, \HAD, \HBD, \HB9, \HA1, \HB1}
LdxOpcodes == {\HA2, \HA6, \HB6, \HAE, \HBE}
LdyOpcodes == {\HA0, \HA4, \HB4, \HAC, \HBC}
LoadOpcodes == LdaOpcodes \cup LdxOpcodes \cup LdyOpcodes

\* The operand bytes at $8100-$81FF take every value 0..255.
LoadPcs == \H8100 .. \H81FF
LoadStatuses == {\H00, \HC3}

InitLoad ==
    Started([a : {\H5A}, x : {\H01}, y : {\H02}, s : {\HFD},
             pc : LoadPcs, status : LoadStatuses],
            {AluRam}, {NRomPRG_new(1, Image16)}, BOOLEAN)

NextLoad == \E instruction \in LoadOpcodes : Execute(instruction, MaxLoadOps)

SpecLoad == InitLoad /\ [][NextLoad]_vars

\* The register the last executed load opcode is to write
LoadTarget ==
    CASE last.arg \in LdaOpcodes -> "a"
      [] last.arg \in LdxOpcodes -> "x"
      [] last.arg \in LdyOpcodes -> "y"

\* C27: a load opcode that completes writes its operand to its own register
\* only (LDA to A, LDX to X, 0xBE included, LDY to Y): the other two of A, X,
\* Y and the stack pointer keep their values, and Zero and Negative are those
\* of the loaded value.
C27_LoadWritesOwnRegister ==
    (last.name = "execute" /\ last.arg \in LoadOpcodes /\ fatal = "none")
        => /\ registers[LoadTarget] = LastOperand
           /\ \A r \in {"a", "x", "y", "s"} \ {LoadTarget} : registers[r] = last.pre[r]
           /\ get_status(Self, Zero) <=> (LastOperand = 0)
           /\ get_status(Self, Negative) <=> (LastOperand >= \H80)

----------------------------------------------------------------------------
(* SpecRun: the loop of CPU::run, one turn (fetch, execute) per step.      *)

MaxRunOps == 3

\* Every opcode byte 0..255 is fetched from $8100-$81FF; $8000 holds JSR $9000.
RunPcs == (\H8100 .. \H81FF) \cup {\H8000, \H9000, \HC000, \HFFFF}

InitRun ==
    Started([a : {\H5A}, x : {\H01}, y : {\H02}, s : {\HFD}, pc : RunPcs, status : {\H04}],
            {AluRam}, Cartridges, BOOLEAN)

\* One turn of the loop; the record keeps the pc the opcode was fetched at.
RunTurn ==
    /\ fatal = "none" /\ steps < MaxRunOps
    /\ Called("run", registers.pc, run_step(Self), 0)

NextRun == RunTurn

SpecRun == InitRun /\ [][NextRun]_vars

\* The panics of the source: the ways a call can end without returning
FatalConditions ==
    {"unsupported_instruction", "unimplemented", "invalid_write", "invalid_prg_access",
     "unreachable", "out_of_bounds", "overflow"}

====
